---- MODULE Spec2Model ----
(***************************************************************************)
(* Model of app.py: a Telegram bot that burns Hebrew subtitles into an     *)
(* uploaded video.  handle_video admits a video message through a          *)
(* non-blocking semaphore and hands it to a thread pool; process_video_job *)
(* transcribes, filters, translates, serializes, renders and delivers.     *)
(*                                                                         *)
(* Strings are sequences of tokens.  A time is a number of milliseconds.   *)
(***************************************************************************)
EXTENDS Integers, Sequences, FiniteSets, TLC

\* ------------------------------------------------------------------------
\* Configuration
\* ------------------------------------------------------------------------
MAX_VIDEO_SECONDS == 300

WORKERS == 1

\* number of video messages the transport delivers in one behaviour
NumMsgs == 2

\* longest list of texts handed to a stand-alone batch_translate_texts call
MaxTexts == 2

Msgs == 1..NumMsgs

Sec(n) == n * 1000

\* ------------------------------------------------------------------------
\* Strings
\* ------------------------------------------------------------------------
SENTINEL == "<<<SPLIT>>>"

delimiter == <<"\n", SENTINEL, " ", "\n">>

\* the characters str.strip() takes for whitespace: space, tab, line feed,
\* carriage return, form feed, and those that have no escape here, written
\* as Python writes them (vertical tab, the separators U+001C..U+001F,
\* U+0085, the no-break space U+00A0 and the Unicode spaces)
Whitespace ==
    {" ", "\t", "\n", "\r", "\f", "\\x0b", "\\x1c", "\\x1d", "\\x1e", "\\x1f",
     "\\x85", "\\xa0", "\\u1680", "\\u2000", "\\u2001", "\\u2002", "\\u2003",
     "\\u2004", "\\u2005", "\\u2006", "\\u2007", "\\u2008", "\\u2009", "\\u200a",
     "\\u2028", "\\u2029", "\\u202f", "\\u205f", "\\u3000"}

IsSpace(c) == c \in Whitespace

RECURSIVE LStrip(_)
LStrip(s) ==
    IF s # <<>> /\ IsSpace(Head(s)) THEN LStrip(Tail(s)) ELSE s

RECURSIVE RStrip(_)
RStrip(s) ==
    IF s # <<>> /\ IsSpace(s[Len(s)]) THEN RStrip(SubSeq(s, 1, Len(s) - 1)) ELSE s

\* str.strip()
Strip(s) == RStrip(LStrip(s))

\* index of the first occurrence of sep in s, 0 when there is none
FindFirst(s, sep) ==
    LET hits == {i \in 1..(Len(s) - Len(sep) + 1) :
                    SubSeq(s, i, i + Len(sep) - 1) = sep}
    IN  IF hits = {} THEN 0 ELSE CHOOSE i \in hits : \A j \in hits : i <= j

\* str.split(sep): the parts between the non-overlapping occurrences of sep,
\* found left to right; a string without sep is one part
RECURSIVE Split(_, _)
Split(s, sep) ==
    LET i == FindFirst(s, sep)
    IN  IF i = 0 THEN <<s>>
        ELSE <<SubSeq(s, 1, i - 1)>> \o Split(SubSeq(s, i + Len(sep), Len(s)), sep)

\* sep.join(list)
RECURSIVE Join(_, _)
Join(list, sep) ==
    IF list = <<>> THEN <<>>
    ELSE IF Len(list) = 1 THEN list[1]
    ELSE list[1] \o sep \o Join(Tail(list), sep)

Max(S) == CHOOSE x \in S : \A y \in S : y <= x

\* ------------------------------------------------------------------------
\* The translation provider (translator.translate), a black box: it renders
\* each letter in the target language and may tamper with the layout.
\* ------------------------------------------------------------------------
TrToken(c) == CASE c = "a" -> "A" [] c = "b" -> "B" [] OTHER -> c

Tr(s) == [i \in DOMAIN s |-> TrToken(s[i])]

\* the first delimiter of s loses its shape (its line breaks become a space)
DropFirstDelim(s) ==
    LET i == FindFirst(s, delimiter)
    IN  IF i = 0 THEN s
        ELSE SubSeq(s, 1, i - 1) \o <<" ">> \o SubSeq(s, i + Len(delimiter), Len(s))

Behaviours == {"faithful", "drop_delim", "add_delim", "move_delim", "pad"}

Respond(b, s) ==
    CASE b = "faithful"   -> Tr(s)
      [] b = "drop_delim" -> DropFirstDelim(Tr(s))
      [] b = "add_delim"  -> Tr(s) \o delimiter
      [] b = "move_delim" -> DropFirstDelim(Tr(s)) \o delimiter
      [] b = "pad"        -> Tr(s) \o <<" ">>

\* the responses translator.translate(s) may give
Responses(s) == {Respond(b, s) : b \in Behaviours}

\* ------------------------------------------------------------------------
\* batch_translate_texts, one provider call per step.  st is the state of
\* one invocation: the input texts, where it stands, the parts collected
\* and the provider calls made so far.
\* ------------------------------------------------------------------------
BtIdle == [texts |-> <<>>, phase |-> "idle", parts |-> <<>>, calls |-> <<>>]

\* entry: the empty list returns at once, without a provider call
BtEnter(texts) ==
    [texts |-> texts,
     phase |-> IF texts = <<>> THEN "returned" ELSE "batch",
     parts |-> <<>>,
     calls |-> <<>>]

\* big = delimiter.join(texts)
Big(texts) == Join(texts, delimiter)

\* parts = [p.strip() for p in translated_big.split(delimiter)]
SplitParts(translated_big) ==
    LET raw == Split(translated_big, delimiter)
    IN  [i \in DOMAIN raw |-> Strip(raw[i])]

\* a check that only catches lost delimiters, not added ones
MismatchOnlyFewer(parts, texts) == Len(parts) < Len(texts)

\* if len(parts) != len(texts)
Mismatch(parts, texts) == Len(parts) # Len(texts)

\* the single call on the joined blob answered r, then the alignment check
BtBatch(st, r) ==
    LET parts == SplitParts(r)
        call  == [arg |-> Big(st.texts), res |-> r, ok |-> TRUE]
    IN  IF Mismatch(parts, st.texts)
        THEN [st EXCEPT !.phase = "items", !.parts = <<>>,
                        !.calls = Append(@, call)]
        ELSE [st EXCEPT !.phase = "returned", !.parts = parts,
                        !.calls = Append(@, call)]

\* one step of [translator.translate(t) for t in texts], answered r
BtItem(st, r) ==
    LET i    == Len(st.parts) + 1
        call == [arg |-> st.texts[i], res |-> r, ok |-> TRUE]
    IN  [st EXCEPT !.phase = IF i = Len(st.texts) THEN "returned" ELSE "items",
                   !.parts = Append(@, r),
                   !.calls = Append(@, call)]

\* the argument of the provider call st is about to make
BtArg(st) ==
    IF st.phase = "batch" THEN Big(st.texts) ELSE st.texts[Len(st.parts) + 1]

\* the provider call raised: batch_translate_texts does not catch it
BtRaise(st) ==
    [st EXCEPT !.phase = "raised",
               !.calls = Append(@, [arg |-> BtArg(st), res |-> <<>>, ok |-> FALSE])]

\* st after its next provider call answered r
BtStep(st, r) == IF st.phase = "batch" THEN BtBatch(st, r) ELSE BtItem(st, r)

\* ------------------------------------------------------------------------
\* Segment model (process_video_job, lines 187-206)
\* ------------------------------------------------------------------------
\* s.get("text", "").strip()
SpanText(s) == Strip(IF "text" \in DOMAIN s THEN s.text ELSE <<>>)

\* a filter loop that also drops the spans that end before they start
RECURSIVE NormalizeDroppingReversed(_)
NormalizeDroppingReversed(segments) ==
    IF segments = <<>> THEN <<>>
    ELSE LET s == Head(segments)
         IN  IF "start" \notin DOMAIN s \/ "end" \notin DOMAIN s
               THEN NormalizeDroppingReversed(Tail(segments))
             ELSE IF SpanText(s) = <<>> \/ s.end < s.start
               THEN NormalizeDroppingReversed(Tail(segments))
             ELSE <<[start |-> s.start, end |-> s.end, text |-> SpanText(s)]>>
                    \o NormalizeDroppingReversed(Tail(segments))

\* the filter loop: spans with start, end and a non-blank text, in order
RECURSIVE Normalize(_)
Normalize(segments) ==
    IF segments = <<>> THEN <<>>
    ELSE LET s == Head(segments)
         IN  IF "start" \notin DOMAIN s \/ "end" \notin DOMAIN s
               THEN Normalize(Tail(segments))
             ELSE IF SpanText(s) = <<>>
               THEN Normalize(Tail(segments))
             ELSE <<[start |-> s.start, end |-> s.end, text |-> SpanText(s)]>>
                    \o Normalize(Tail(segments))

Texts(simple_segments) ==
    [i \in DOMAIN simple_segments |-> simple_segments[i].text]

\* max(s["end"] for s in simple_segments)
total_duration(simple_segments) ==
    Max({simple_segments[i].end : i \in DOMAIN simple_segments})

\* a gate that also rejects a duration equal to the bound
TooLongInclusive(simple_segments) ==
    total_duration(simple_segments) >= Sec(MAX_VIDEO_SECONDS)

TooLong(simple_segments) ==
    total_duration(simple_segments) > Sec(MAX_VIDEO_SECONDS)

\* translations attached from the far end: segment i gets the translation
\* of the i-th segment from the last
AttachReversed(simple_segments, translated) ==
    [i \in DOMAIN simple_segments |->
        [simple_segments[i] EXCEPT !.text = translated[Len(translated) + 1 - i]]]

\* seg["text"] = translated[i]
Attach(simple_segments, translated) ==
    [i \in DOMAIN simple_segments |->
        [simple_segments[i] EXCEPT !.text = translated[i]]]

\* what the transcription provider may return as resp.segments
RawResults ==
    { <<>>,
      << [start |-> 0, text |-> <<"a">>],
         [start |-> 0, end |-> Sec(1), text |-> <<" ", "\t">>] >>,
      << [start |-> 0, end |-> Sec(MAX_VIDEO_SECONDS), text |-> <<"a">>] >>,
      << [start |-> 0, end |-> Sec(MAX_VIDEO_SECONDS) + 1, text |-> <<"a">>] >>,
      << [start |-> 0, end |-> Sec(310), text |-> <<"a">>],
         [start |-> Sec(1), end |-> Sec(2), text |-> <<"b">>] >>,
      << [start |-> 0, end |-> 2500, text |-> <<"a">>],
         [start |-> 2500, end |-> Sec(5), text |-> <<"\t", "b", "\n">>] >> }

\* ------------------------------------------------------------------------
\* State
\* ------------------------------------------------------------------------
VARIABLES
    permits,    \* job_semaphore: the permits available
    queue,      \* executor: the submitted jobs no worker thread has taken yet
    pc,         \* per message: where its handler or its job stands
    job,        \* per message: the locals of the try body of process_video_job
    files,      \* per message: the temporary files of its job that exist
    log,        \* per message: what its handler and job did, in order
    bt,         \* a stand-alone invocation of batch_translate_texts
    fn          \* a stand-alone call of one of the helpers: its input, its result

vars == <<permits, queue, pc, job, files, log, bt, fn>>

\* the locals of a job: the segments, their texts, and where its call of
\* batch_translate_texts stands
NoJob == [simple_segments |-> <<>>, texts |-> <<>>, bt |-> BtIdle]

\* no helper is being called on its own
FnIdle == [op |-> "none"]

HANDLER == "handle_video"

JOB == "process_video_job"

\* one entry of the log: who did what, and whether it went through
Ev(by, ev, what, ok) == [by |-> by, ev |-> ev, what |-> what, ok |-> ok]

Logged(m, e) == [log EXCEPT ![m] = Append(@, e)]

Goto(m, label) == [pc EXCEPT ![m] = label]

\* the positions inside process_video_job
JobPcs ==
    {"j_save_input", "j_notify_transcribe", "j_transcribe", "j_notify_no_speech",
     "j_notify_too_long", "j_notify_translate", "j_translate", "j_notify_ass",
     "j_make_ass", "j_notify_burn", "j_create_output", "j_burn",
     "j_notify_upload", "j_send_video", "j_cleanup", "j_except", "j_finally"}

\* the worker threads of the executor that are busy
running == {m \in Msgs : pc[m] \in JobPcs}

\* the locals of the try body are not read once control is in the except or
\* the finally clause
Locals(m, label) ==
    IF label \in {"j_except", "j_finally"} THEN [job EXCEPT ![m] = NoJob] ELSE job

Init ==
    /\ permits = WORKERS
    /\ queue = <<>>
    /\ pc = [m \in Msgs |-> "idle"]
    /\ job = [m \in Msgs |-> NoJob]
    /\ files = [m \in Msgs |-> {}]
    /\ log = [m \in Msgs |-> <<>>]
    /\ bt = BtIdle
    /\ fn = FnIdle

\* a step of message m at position `at`: it logs e and continues at `label`
Step(m, at, e, label) ==
    /\ pc[m] = at
    /\ log' = Logged(m, e)
    /\ pc' = Goto(m, label)
    /\ job' = Locals(m, label)

\* bot.send_message(chat, text) at position `at`: the text goes out and the
\* code continues at `next`, or the call raises and control passes to `handler`
SendMessage(m, by, at, kind, next, handler) ==
    \E ok \in BOOLEAN :
        Step(m, at, Ev(by, "notice", kind, ok), IF ok THEN next ELSE handler)

\* a call whose failure is ignored: the code continues at `next` either way
CallIgnoringFailure(m, by, at, op, next, handler) ==
    \E ok \in BOOLEAN :
        Step(m, at, Ev(by, "call", op, ok), next)

\* a call of an external collaborator at position `at`
Call(m, by, at, op, next, handler) ==
    \E ok \in BOOLEAN :
        Step(m, at, Ev(by, "call", op, ok), IF ok THEN next ELSE handler)

\* ------------------------------------------------------------------------
\* handle_video (lines 260-280)
\* ------------------------------------------------------------------------
\* an acquire that also succeeds when no permit is left
TryAcquireAtZero(p) == p >= 0

\* job_semaphore.acquire(blocking=False)
TryAcquire(p) == p > 0

\* lines 262-266: the admission check
HandleVideoAcquire(m) ==
    /\ IF TryAcquire(permits)
         THEN /\ permits' = permits - 1
              /\ Step(m, "idle", Ev(HANDLER, "acquire", "job_semaphore", TRUE),
                      "h_notify_download")
         ELSE /\ permits' = permits
              /\ Step(m, "idle", Ev(HANDLER, "acquire", "job_semaphore", FALSE),
                      "h_notify_busy")
    /\ UNCHANGED <<queue, files, bt, fn>>

\* a denied handler that gives back a permit it never took
HandleVideoBusyReleasing(m) ==
    /\ SendMessage(m, HANDLER, "h_notify_busy", "busy", "h_returned", "h_except")
    /\ permits' = permits + 1
    /\ UNCHANGED <<queue, files, bt, fn>>

\* lines 267-268: the busy notice, then return
HandleVideoBusy(m) ==
    /\ SendMessage(m, HANDLER, "h_notify_busy", "busy", "h_returned", "h_except")
    /\ UNCHANGED <<permits, queue, files, bt, fn>>

\* line 270
HandleVideoNotifyDownload(m) ==
    /\ SendMessage(m, HANDLER, "h_notify_download", "downloading",
                   "h_get_file", "h_except")
    /\ UNCHANGED <<permits, queue, files, bt, fn>>

\* line 271: bot.get_file
HandleVideoGetFile(m) ==
    /\ Call(m, HANDLER, "h_get_file", "get_file", "h_download", "h_except")
    /\ UNCHANGED <<permits, queue, files, bt, fn>>

\* lines 272-273: requests.get(url).content, the media download
HandleVideoDownload(m) ==
    /\ Call(m, HANDLER, "h_download", "download", "h_submit", "h_except")
    /\ UNCHANGED <<permits, queue, files, bt, fn>>

\* line 276: executor.submit; the handler returns and the job waits for a
\* worker thread
HandleVideoSubmit(m) ==
    /\ \E ok \in BOOLEAN :
         /\ Step(m, "h_submit", Ev(HANDLER, "call", "submit", ok),
                 IF ok THEN "queued" ELSE "h_except")
         /\ queue' = IF ok THEN Append(queue, m) ELSE queue
    /\ UNCHANGED <<permits, files, bt, fn>>

\* lines 278-280: the handler's except clause; its own send_message is not
\* guarded, so an error of it leaves the handler as an exception
HandleVideoExcept(m) ==
    /\ SendMessage(m, HANDLER, "h_except", "handler_error", "h_returned", "h_raised")
    /\ UNCHANGED <<permits, queue, files, bt, fn>>

\* ------------------------------------------------------------------------
\* process_video_job (lines 166-251)
\* ------------------------------------------------------------------------
\* a worker thread of the pool takes the oldest submitted job
JobStart(m) ==
    /\ pc[m] = "queued"
    /\ queue # <<>> /\ Head(queue) = m
    /\ Cardinality(running) < WORKERS
    /\ queue' = Tail(queue)
    /\ pc' = Goto(m, "j_save_input")
    /\ UNCHANGED <<permits, job, files, log, bt, fn>>

\* how the creation of a temporary file may end: written, not created at
\* all, or created and then failed while being written
FileOutcomes == {"written", "not_created", "write_failed"}

\* a NamedTemporaryFile(delete=False) is created and filled at position `at`
CreateFile(m, at, name, outcome, next) ==
    /\ Step(m, at, Ev(JOB, "create", name, outcome = "written"),
            IF outcome = "written" THEN next ELSE "j_except")
    /\ files' = [files EXCEPT ![m] =
                    IF outcome = "not_created" THEN @ ELSE @ \cup {name}]

\* lines 173-176: the input file
JobSaveInput(m) ==
    /\ \E o \in FileOutcomes :
         CreateFile(m, "j_save_input", "input", o, "j_notify_transcribe")
    /\ UNCHANGED <<permits, queue, bt, fn>>

\* line 180
JobNotifyTranscribe(m) ==
    /\ SendMessage(m, JOB, "j_notify_transcribe", "transcribing",
                   "j_transcribe", "j_except")
    /\ UNCHANGED <<permits, queue, files, bt, fn>>

\* where the job goes after the filter loop: lines 200 and 205-206
AfterNormalize(simple_segments) ==
    IF simple_segments = <<>> THEN "j_notify_no_speech"
    ELSE IF TooLong(simple_segments) THEN "j_notify_too_long"
    ELSE "j_notify_translate"

\* lines 181-206: the transcription call, the filter loop, the two gates
JobTranscribe(m) ==
    /\ pc[m] = "j_transcribe"
    /\ \/ /\ log' = Logged(m, Ev(JOB, "call", "transcribe", FALSE))
          /\ pc' = Goto(m, "j_except")
          /\ job' = Locals(m, "j_except")
       \/ \E segments \in RawResults :
            LET simple_segments == Normalize(segments)
            IN  /\ log' = Logged(m, Ev(JOB, "call", "transcribe", TRUE))
                /\ job' = [job EXCEPT ![m] =
                              [simple_segments |-> simple_segments,
                               texts |-> Texts(simple_segments),
                               bt |-> BtIdle]]
                /\ pc' = Goto(m, AfterNormalize(simple_segments))
    /\ UNCHANGED <<permits, queue, files, bt, fn>>

\* the no-speech notice without the return after it
JobNotifyNoSpeechNoReturn(m) ==
    /\ SendMessage(m, JOB, "j_notify_no_speech", "no_speech",
                   "j_notify_translate", "j_except")
    /\ UNCHANGED <<permits, queue, files, bt, fn>>

\* lines 201-202: the no-speech notice, then return
JobNotifyNoSpeech(m) ==
    /\ SendMessage(m, JOB, "j_notify_no_speech", "no_speech", "j_finally", "j_except")
    /\ UNCHANGED <<permits, queue, files, bt, fn>>

\* lines 207-208: the too-long notice, then return
JobNotifyTooLong(m) ==
    /\ SendMessage(m, JOB, "j_notify_too_long", "too_long", "j_finally", "j_except")
    /\ UNCHANGED <<permits, queue, files, bt, fn>>

\* line 210
JobNotifyTranslate(m) ==
    /\ SendMessage(m, JOB, "j_notify_translate", "translating",
                   "j_translate", "j_except")
    /\ UNCHANGED <<permits, queue, files, bt, fn>>

\* the invocation of batch_translate_texts the job is in: line 211 enters
\* it, and it has made no provider call yet
BtOf(m) == IF job[m].bt.phase = "idle" THEN BtEnter(job[m].texts) ELSE job[m].bt

\* the job keeps no record of the provider calls it made
Forget(st) == [st EXCEPT !.calls = <<>>]

\* lines 211-215, one provider call per step: the call on the joined blob
\* (line 153) or the next per-item call (line 160). The call raises, and
\* the job fails; or it answers and batch_translate_texts goes on to its
\* next call; or it answers, batch_translate_texts returns, and the
\* translations are attached to the segments. The log gets the one entry
\* of line 211 when batch_translate_texts has returned or raised.
JobTranslate(m) ==
    /\ pc[m] = "j_translate"
    /\ \/ /\ log' = Logged(m, Ev(JOB, "call", "translate", FALSE))
          /\ job' = Locals(m, "j_except")
          /\ pc' = Goto(m, "j_except")
       \/ \E r \in Responses(BtArg(BtOf(m))) :
            LET st == BtStep(BtOf(m), r)
            IN  IF st.phase = "returned"
                  THEN /\ log' = Logged(m, Ev(JOB, "call", "translate", TRUE))
                       /\ job' = [job EXCEPT
                                    ![m].simple_segments = Attach(@, st.parts),
                                    ![m].bt = BtIdle]
                       /\ pc' = Goto(m, "j_notify_ass")
                  ELSE /\ log' = log
                       /\ job' = [job EXCEPT ![m].bt = Forget(st)]
                       /\ pc' = pc
    /\ UNCHANGED <<permits, queue, files, bt, fn>>

\* line 217
JobNotifyAss(m) ==
    /\ SendMessage(m, JOB, "j_notify_ass", "preparing_ass", "j_make_ass", "j_except")
    /\ UNCHANGED <<permits, queue, files, bt, fn>>

\* lines 219-220: make_ass_file writes the subtitle file
JobMakeAss(m) ==
    /\ \E o \in FileOutcomes :
         CreateFile(m, "j_make_ass", "ass", o, "j_notify_burn")
    /\ UNCHANGED <<permits, queue, bt, fn>>

\* line 222
JobNotifyBurn(m) ==
    /\ SendMessage(m, JOB, "j_notify_burn", "burning", "j_create_output", "j_except")
    /\ UNCHANGED <<permits, queue, files, bt, fn>>

\* lines 223-225: the (empty) output file
JobCreateOutput(m) ==
    /\ \E o \in {"written", "not_created"} :
         CreateFile(m, "j_create_output", "output", o, "j_burn")
    /\ UNCHANGED <<permits, queue, bt, fn>>

\* what os.system(cmd) may return
ExitCodes == {0, 256}

\* a check that takes only a negative status for a failure
RenderFailedNegative(res) == res < 0

\* burn_ass_with_ffmpeg, lines 137-139: if res != 0: raise
RenderFailed(res) == res # 0

\* line 227: the render tool runs once
JobBurn(m) ==
    /\ \E res \in ExitCodes :
         Step(m, "j_burn", Ev(JOB, "call", "render", res = 0),
              IF RenderFailed(res) THEN "j_except" ELSE "j_notify_upload")
    /\ UNCHANGED <<permits, queue, files, bt, fn>>

\* line 229
JobNotifyUpload(m) ==
    /\ SendMessage(m, JOB, "j_notify_upload", "uploading", "j_send_video", "j_except")
    /\ UNCHANGED <<permits, queue, files, bt, fn>>

\* lines 230-231: bot.send_video
JobSendVideo(m) ==
    /\ Call(m, JOB, "j_send_video", "send_video", "j_cleanup", "j_except")
    /\ UNCHANGED <<permits, queue, files, bt, fn>>

\* the files os.remove is called on in the cleanup loop
CleanupTargets == {"input", "ass", "output"}

\* lines 234-238: os.remove is called on each of the three files; it removes
\* the file or raises, and the error is swallowed and the file stays
JobCleanup(m) ==
    /\ Step(m, "j_cleanup", Ev(JOB, "remove", CleanupTargets, TRUE), "j_finally")
    /\ \E removed \in SUBSET CleanupTargets :
         files' = [files EXCEPT ![m] = @ \ removed]
    /\ UNCHANGED <<permits, queue, bt, fn>>

\* an except clause that gives the slot back itself, before the finally
\* clause does
JobExceptReleasing(m) ==
    /\ Step(m, "j_except", Ev(JOB, "release", "job_semaphore", TRUE), "j_finally")
    /\ permits' = permits + 1
    /\ UNCHANGED <<queue, files, bt, fn>>

\* lines 240-245: the failure notice; an error of it is swallowed
JobExcept(m) ==
    /\ SendMessage(m, JOB, "j_except", "job_error", "j_finally", "j_finally")
    /\ UNCHANGED <<permits, queue, files, bt, fn>>

\* a release that credits two permits
ReleaseTwice(p) == p + 2

\* job_semaphore.release()
Release(p) == p + 1

\* lines 246-251: the finally clause, then the job returns
JobFinally(m) ==
    /\ Step(m, "j_finally", Ev(JOB, "release", "job_semaphore", TRUE), "j_done")
    /\ permits' = Release(permits)
    /\ UNCHANGED <<queue, files, bt, fn>>

Next ==
    \E m \in Msgs :
        \/ HandleVideoAcquire(m)
        \/ HandleVideoBusy(m)
        \/ HandleVideoNotifyDownload(m)
        \/ HandleVideoGetFile(m)
        \/ HandleVideoDownload(m)
        \/ HandleVideoSubmit(m)
        \/ HandleVideoExcept(m)
        \/ JobStart(m)
        \/ JobSaveInput(m)
        \/ JobNotifyTranscribe(m)
        \/ JobTranscribe(m)
        \/ JobNotifyNoSpeech(m)
        \/ JobNotifyTooLong(m)
        \/ JobNotifyTranslate(m)
        \/ JobTranslate(m)
        \/ JobNotifyAss(m)
        \/ JobMakeAss(m)
        \/ JobNotifyBurn(m)
        \/ JobCreateOutput(m)
        \/ JobBurn(m)
        \/ JobNotifyUpload(m)
        \/ JobSendVideo(m)
        \/ JobCleanup(m)
        \/ JobExcept(m)
        \/ JobFinally(m)

Spec == Init /\ [][Next]_vars

\* ------------------------------------------------------------------------
\* batch_translate_texts on its own: any list of texts, any provider
\* ------------------------------------------------------------------------
TextPool == { <<"a">>, <<"b">>, <<>>, <<"a">> \o delimiter \o <<"b">> }

TextLists == UNION {[1..n -> TextPool] : n \in 0..MaxTexts}

InitTranslate ==
    /\ permits = WORKERS
    /\ queue = <<>>
    /\ pc = [m \in Msgs |-> "idle"]
    /\ job = [m \in Msgs |-> NoJob]
    /\ files = [m \in Msgs |-> {}]
    /\ log = [m \in Msgs |-> <<>>]
    /\ \E texts \in TextLists : bt = BtEnter(texts)
    /\ fn = FnIdle

\* translator.translate answers the next call of the invocation
TranslateCall ==
    /\ bt.phase \in {"batch", "items"}
    /\ \E r \in Responses(BtArg(bt)) : bt' = BtStep(bt, r)
    /\ UNCHANGED <<permits, queue, pc, job, files, log, fn>>

\* translator.translate raises
TranslateRaise ==
    /\ bt.phase \in {"batch", "items"}
    /\ bt' = BtRaise(bt)
    /\ UNCHANGED <<permits, queue, pc, job, files, log, fn>>

NextTranslate == TranslateCall \/ TranslateRaise

SpecTranslate == InitTranslate /\ [][NextTranslate]_vars

\* ------------------------------------------------------------------------
\* The filter loop on its own (lines 187-198)
\* ------------------------------------------------------------------------
\* the pipeline has not started
PipelineAtRest ==
    /\ permits = WORKERS
    /\ queue = <<>>
    /\ pc = [m \in Msgs |-> "idle"]
    /\ job = [m \in Msgs |-> NoJob]
    /\ files = [m \in Msgs |-> {}]
    /\ log = [m \in Msgs |-> <<>>]
    /\ bt = BtIdle

MaxSpans == 2

\* raw spans as the provider may report them: complete, ending before they
\* start, with text to trim (spaces, tabs, line ends), blank, or lacking
\* start, end or text
RawSpans ==
    { [start |-> Sec(1), end |-> Sec(2), text |-> <<"a">>],
      [start |-> Sec(3), end |-> Sec(2), text |-> <<"b">>],
      [start |-> 0, end |-> Sec(1), text |-> <<" ", "a", "\n">>],
      [start |-> 0, end |-> Sec(1), text |-> <<" ", "\n">>],
      [start |-> 0, end |-> Sec(1), text |-> <<"\t", "a", "\r">>],
      [start |-> 0, end |-> Sec(1), text |-> <<"\t", "\\xa0">>],
      [start |-> 0, end |-> Sec(1)],
      [start |-> 0, text |-> <<"a">>],
      [end |-> Sec(1), text |-> <<"a">>] }

RECURSIVE ListsOver(_, _)
ListsOver(S, n) ==
    IF n = 0 THEN {<<>>}
    ELSE ListsOver(S, n - 1)
           \cup {Append(l, x) : l \in {k \in ListsOver(S, n - 1) : Len(k) = n - 1}, x \in S}

RawLists == ListsOver(RawSpans, MaxSpans)

InitNormalize ==
    /\ PipelineAtRest
    /\ \E segments \in RawLists :
         fn = [op |-> "normalize", segments |-> segments, done |-> FALSE,
               simple_segments |-> <<>>]

\* the loop runs over resp.segments
NormalizeCall ==
    /\ fn.op = "normalize" /\ ~fn.done
    /\ fn' = [fn EXCEPT !.done = TRUE, !.simple_segments = Normalize(fn.segments)]
    /\ UNCHANGED <<permits, queue, pc, job, files, log, bt>>

NextNormalize == NormalizeCall

SpecNormalize == InitNormalize /\ [][NextNormalize]_vars

\* ------------------------------------------------------------------------
\* Time codes (seconds_to_ass_time, lines 54-60)
\* ------------------------------------------------------------------------
\* A time of the model is a whole number of milliseconds, the decimal the
\* provider reported; the code holds it as a Python float, the binary64
\* number nearest to that decimal, and line 59 computes with it. The float
\* is kept here as its whole part and the bits of its fraction.

\* the significand of a Python float has 53 bits
Mantissa == 53

RECURSIVE BitLen(_)
BitLen(n) == IF n = 0 THEN 0 ELSE 1 + BitLen(n \div 2)

\* the number q < 2^w as w bits, and back
BitsOf(q, w) == [i \in 1..w |-> (q \div 2^(w - i)) % 2]

RECURSIVE BitsValue(_)
BitsValue(bits) ==
    IF bits = <<>> THEN 0
    ELSE 2 * BitsValue(SubSeq(bits, 1, Len(bits) - 1)) + bits[Len(bits)]

\* the first L bits of the binary fraction r/den, and what is left over;
\* the long division goes eight bits at a time
RECURSIVE Expand(_, _, _)
Expand(r, den, L) ==
    IF L <= 8 THEN [bits |-> BitsOf((2^L * r) \div den, L), rem |-> (2^L * r) % den]
    ELSE LET rest == Expand((2^8 * r) % den, den, L - 8)
         IN  [bits |-> BitsOf((2^8 * r) \div den, 8) \o rest.bits, rem |-> rest.rem]

\* the zero bits the binary fraction r/den starts with (r > 0)
RECURSIVE LeadZeros(_, _)
LeadZeros(r, den) == IF 2 * r >= den THEN 0 ELSE 1 + LeadZeros(2 * r, den)

\* one unit in the last place is added to a bit string
Inc(bits) ==
    LET zeros == {i \in DOMAIN bits : bits[i] = 0}
        z == IF zeros = {} THEN 0 ELSE Max(zeros)
    IN  [bits |-> [i \in DOMAIN bits |->
                      IF i < z THEN bits[i] ELSE IF i = z THEN 1 ELSE 0],
         carry |-> IF z = 0 THEN 1 ELSE 0]

\* float(x) for the decimal x = ms/1000: round to nearest, ties to even
FloatOf(ms) ==
    LET n == ms \div 1000
        r == ms % 1000
    IN  IF r = 0 THEN [int |-> n, frac |-> <<>>]
        ELSE LET L == IF n > 0 THEN Mantissa - BitLen(n)
                      ELSE LeadZeros(r, 1000) + Mantissa
                 e == Expand(r, 1000, L)
                 up == \/ 2 * e.rem > 1000
                       \/ (2 * e.rem = 1000 /\ e.bits[L] = 1)
                 i == Inc(e.bits)
             IN  IF up THEN [int |-> n + i.carry, frac |-> i.bits]
                 ELSE [int |-> n, frac |-> e.bits]

\* the exact product of a binary fraction and 100: its whole part and the
\* bits of its fraction, worked out eight bits at a time from the right
RECURSIVE Times100(_)
Times100(bits) ==
    IF bits = <<>> THEN [int |-> 0, frac |-> <<>>]
    ELSE LET w == IF Len(bits) < 8 THEN Len(bits) ELSE 8
             rest == Times100(SubSeq(bits, w + 1, Len(bits)))
             t == 100 * BitsValue(SubSeq(bits, 1, w)) + rest.int
         IN  [int |-> t \div 2^w, frac |-> BitsOf(t % 2^w, w) \o rest.frac]

\* the place of the first 1 of a bit string, 0 when there is none
FirstOne(bits) ==
    LET ones == {k \in DOMAIN bits : bits[k] = 1}
    IN  IF ones = {} THEN 0 ELSE CHOOSE k \in ones : \A j \in ones : k <= j

\* int(frac * 100), line 59: the product is rounded to a float before it is
\* truncated, so it reaches the next whole number when every bit the float
\* keeps, and the first bit it loses, is a 1
Centis(frac) ==
    LET p == Times100(frac)
        kept == IF p.int > 0 THEN Mantissa - BitLen(p.int)
                ELSE FirstOne(p.frac) + Mantissa - 1
    IN  IF /\ FirstOne(p.frac) # 0
           /\ Len(p.frac) > kept
           /\ \A k \in 1..(kept + 1) : p.frac[k] = 1
          THEN p.int + 1
          ELSE p.int

\* lines 56-59: the four numbers of the time code
AssTimeFields(sec_float) ==
    LET x == FloatOf(sec_float)
    IN  [h |-> x.int \div 3600,
         m |-> (x.int % 3600) \div 60,
         s |-> x.int % 60,
         cs |-> Centis(x.frac)]

DigitChars == <<"0", "1", "2", "3", "4", "5", "6", "7", "8", "9">>

\* str(n) for n >= 0
RECURSIVE Decimal(_)
Decimal(n) ==
    IF n < 10 THEN <<DigitChars[n + 1]>>
    ELSE Append(Decimal(n \div 10), DigitChars[(n % 10) + 1])

\* f"{n:02}"
Pad2(n) == IF n < 10 THEN <<"0">> \o Decimal(n) ELSE Decimal(n)

\* line 60: f"{h}:{m:02}:{s:02}.{cs:02}"
seconds_to_ass_time(sec_float) ==
    LET f == AssTimeFields(sec_float)
    IN  Decimal(f.h) \o <<":">> \o Pad2(f.m) \o <<":">> \o Pad2(f.s)
          \o <<".">> \o Pad2(f.cs)

\* ------------------------------------------------------------------------
\* seconds_to_ass_time on its own
\* ------------------------------------------------------------------------
\* times below ten hours, in milliseconds: whole seconds around the minute
\* and the hour with fractions that are exact in binary (0, 250, 500, 750)
\* and fractions that are not, and 0.58 s, a multiple of the 20 ms step of
\* the transcription
WholeSeconds == {0, 1, 59, 60, 3599, 3600, 35999}

Millis == {0, 5, 210, 250, 500, 750, 820, 999}

TimePool == {Sec(n) + r : n \in WholeSeconds, r \in Millis} \cup {580}

InitTime ==
    /\ PipelineAtRest
    /\ \E t \in TimePool : fn = [op |-> "time", t |-> t, done |-> FALSE, code |-> <<>>]

TimeCall ==
    /\ fn.op = "time" /\ ~fn.done
    /\ fn' = [fn EXCEPT !.done = TRUE, !.code = seconds_to_ass_time(fn.t)]
    /\ UNCHANGED <<permits, queue, pc, job, files, log, bt>>

NextTime == TimeCall

SpecTime == InitTime /\ [][NextTime]_vars

\* ------------------------------------------------------------------------
\* Shaping and the subtitle file (shape_for_ass, make_ass_file, lines 62-115)
\* ------------------------------------------------------------------------
\* "A" and "B" are the letters of the target language, Hebrew, written right
\* to left; BEH is the Arabic letter U+0628, which the reshaper replaces by
\* one of its four presentation forms; every other letter is written left to right
BEH == "beh"

\* U+FE8F, U+FE90, U+FE91 and U+FE92
BehForms ==
    [isolated |-> "beh_isolated", final |-> "beh_final",
     initial |-> "beh_initial", medial |-> "beh_medial"]

RtlChars == {"A", "B", BEH, BehForms.isolated, BehForms.final,
             BehForms.initial, BehForms.medial}

\* white space and the backslash have no direction of their own
NeutralChars == Whitespace \cup {"\\"}

\* arabic_reshaper.reshape: an Arabic letter takes the form its neighbours
\* call for; nothing else changes
reshape(text) ==
    [i \in DOMAIN text |->
        IF text[i] # BEH THEN text[i]
        ELSE LET joinsBefore == i > 1 /\ text[i - 1] = BEH
                 joinsAfter == i < Len(text) /\ text[i + 1] = BEH
             IN  IF joinsBefore /\ joinsAfter THEN BehForms.medial
                 ELSE IF joinsBefore THEN BehForms.final
                 ELSE IF joinsAfter THEN BehForms.initial
                 ELSE BehForms.isolated]

\* the direction of a character: right to left, left to right or neutral
BidiClass(c) ==
    IF c \in RtlChars THEN "R" ELSE IF c \in NeutralChars THEN "N" ELSE "L"

\* the direction of the paragraph: that of its first strong character
BaseDir(text) ==
    LET strong == {i \in DOMAIN text : BidiClass(text[i]) # "N"}
    IN  IF strong = {} THEN "L"
        ELSE BidiClass(text[CHOOSE i \in strong : \A j \in strong : i <= j])

\* the direction a character resolves to: a neutral takes the direction of
\* the strong characters around it when they agree (the ends of the text
\* count as the paragraph direction) and the paragraph direction otherwise
ResolvedDir(text, i) ==
    IF BidiClass(text[i]) # "N" THEN BidiClass(text[i])
    ELSE LET before == {j \in 1..(i - 1) : BidiClass(text[j]) # "N"}
             after == {j \in (i + 1)..Len(text) : BidiClass(text[j]) # "N"}
             prev == IF before = {} THEN BaseDir(text)
                     ELSE BidiClass(text[Max(before)])
             next == IF after = {} THEN BaseDir(text)
                     ELSE BidiClass(text[CHOOSE j \in after : \A k \in after : j <= k])
         IN  IF prev = next THEN prev ELSE BaseDir(text)

\* the embedding level of a character
BidiLevel(text, i) ==
    IF BaseDir(text) = "L"
      THEN (IF ResolvedDir(text, i) = "L" THEN 0 ELSE 1)
      ELSE (IF ResolvedDir(text, i) = "R" THEN 1 ELSE 2)

Reverse(s) == [i \in DOMAIN s |-> s[Len(s) + 1 - i]]

\* every longest run of items at level lvl or above is reversed
RECURSIVE ReverseRuns(_, _)
ReverseRuns(items, lvl) ==
    IF items = <<>> THEN <<>>
    ELSE LET low == {i \in DOMAIN items : items[i].level < lvl}
             n == IF low = {} THEN Len(items)
                  ELSE (CHOOSE i \in low : \A j \in low : i <= j) - 1
         IN  IF n = 0
               THEN <<Head(items)>> \o ReverseRuns(Tail(items), lvl)
               ELSE Reverse(SubSeq(items, 1, n))
                      \o ReverseRuns(SubSeq(items, n + 1, Len(items)), lvl)

\* bidi.algorithm.get_display: the characters in the order they are drawn,
\* left to right
get_display(text) ==
    LET items == [i \in DOMAIN text |-> [c |-> text[i], level |-> BidiLevel(text, i)]]
        drawn == ReverseRuns(ReverseRuns(items, 2), 1)
    IN  [i \in DOMAIN drawn |-> drawn[i].c]

\* shape_for_ass, lines 62-73: the reshaped text in display order, or the
\* text itself when one of the two libraries raises
shape_for_ass(text, raises) ==
    IF raises THEN text ELSE get_display(reshape(text))

\* line 107: text.replace("\n", "\\N")
RECURSIVE EscapeNewlines(_)
EscapeNewlines(text) ==
    IF text = <<>> THEN <<>>
    ELSE (IF Head(text) = "\n" THEN <<"\\", "N">> ELSE <<Head(text)>>)
           \o EscapeNewlines(Tail(text))

\* lines 84-99: the header, line by line
Header ==
    << "[Script Info]",
       "ScriptType: v4.00+",
       "PlayResX: 1280",
       "PlayResY: 720",
       "WrapStyle: 0",
       "ScaledBorderAndShadow: yes",
       "",
       "[V4+ Styles]",
       "Format: Name, Fontname, Fontsize, PrimaryColour, SecondaryColour, OutlineColour, BackColour, Bold, Italic, Underline, StrikeOut, ScaleX, ScaleY, Spacing, Angle, BorderStyle, Outline, Shadow, Alignment, MarginL, MarginR, MarginV, Encoding",
       "Style: Default,NotoSansHebrew,36,&H00FFFFFF,&H000000FF,&H00000000,&H64000000,0,0,0,0,100,100,0,0,1,2,0,2,10,10,40,1",
       "",
       "[Events]",
       "Format: Layer, Start, End, Style, Name, MarginL, MarginR, MarginV, Effect, Text" >>

\* lines 105-111: "Dialogue: 0,{start},{end},Default,,0,0,0,," + text_shaped
DialogueLine(seg, raises) ==
    [Layer |-> "0",
     Start |-> seconds_to_ass_time(seg.start),
     End |-> seconds_to_ass_time(seg.end),
     Style |-> "Default", Name |-> "",
     MarginL |-> "0", MarginR |-> "0", MarginV |-> "0", Effect |-> "",
     Text |-> shape_for_ass(EscapeNewlines(seg.text), raises)]

\* the segments ordered by their start before they are written
make_ass_file_sorted(segments, raises) ==
    LET RECURSIVE Sorted(_)
        Sorted(idx) ==
            IF idx = {} THEN <<>>
            ELSE LET i == CHOOSE i \in idx :
                            \A j \in idx : \/ segments[i].start < segments[j].start
                                           \/ (segments[i].start = segments[j].start /\ i <= j)
                 IN  <<i>> \o Sorted(idx \ {i})
        order == Sorted(DOMAIN segments)
    IN  [header |-> Header,
         events |-> [k \in DOMAIN segments |-> DialogueLine(segments[order[k]], raises[order[k]])]]

\* make_ass_file, lines 78-115: what the file holds when it is closed;
\* raises[i] tells whether the shaping libraries raise on segment i
make_ass_file(segments, raises) ==
    [header |-> Header,
     events |-> [i \in DOMAIN segments |-> DialogueLine(segments[i], raises[i])]]

\* ------------------------------------------------------------------------
\* From the translations to the subtitle file, on its own (lines 214-220)
\* ------------------------------------------------------------------------
MaxSegs == 2

\* segments as the filter loop leaves them: the two of a short dialogue, and
\* one that ends before it starts and lies before the others
SegPool ==
    { [start |-> 0, end |-> 2500, text |-> <<"a">>],
      [start |-> 2500, end |-> Sec(5), text |-> <<"b">>],
      [start |-> 580, end |-> 290, text |-> <<"a">>] }

\* what batch_translate_texts may hand back for one text: Hebrew, Hebrew
\* with a line break, the text left untranslated, Arabic, nothing
TranslatedPool ==
    { <<"A", "B">>, <<"A", "\n", "B">>, <<"a">>, <<BEH>>, <<>> }

InitAss ==
    /\ PipelineAtRest
    /\ \E n \in 1..MaxSegs :
         \E simple_segments \in [1..n -> SegPool], translated \in [1..n -> TranslatedPool],
            raises \in [1..n -> BOOLEAN] :
             fn = [op |-> "make_ass", stage |-> "translated",
                   normalized |-> simple_segments,
                   simple_segments |-> simple_segments,
                   translated |-> translated, raises |-> raises,
                   document |-> [header |-> <<>>, events |-> <<>>]]

\* lines 214-215: seg["text"] = translated[i]
AttachCall ==
    /\ fn.op = "make_ass" /\ fn.stage = "translated"
    /\ fn' = [fn EXCEPT !.stage = "attached",
                        !.simple_segments = Attach(@, fn.translated)]
    /\ UNCHANGED <<permits, queue, pc, job, files, log, bt>>

\* line 220: make_ass_file(simple_segments, ...)
MakeAssCall ==
    /\ fn.op = "make_ass" /\ fn.stage = "attached"
    /\ fn' = [fn EXCEPT !.stage = "written",
                        !.document = make_ass_file(fn.simple_segments, fn.raises)]
    /\ UNCHANGED <<permits, queue, pc, job, files, log, bt>>

NextAss == AttachCall \/ MakeAssCall

SpecAss == InitAss /\ [][NextAss]_vars

\* ------------------------------------------------------------------------
\* Reading the log
\* ------------------------------------------------------------------------
Has(m, ev, what) ==
    \E i \in DOMAIN log[m] : log[m][i].ev = ev /\ log[m][i].what = what

HasOutcome(m, ev, what, ok) ==
    \E i \in DOMAIN log[m] :
        log[m][i].ev = ev /\ log[m][i].what = what /\ log[m][i].ok = ok

Count(m, ev, what) ==
    Cardinality({i \in DOMAIN log[m] : log[m][i].ev = ev /\ log[m][i].what = what})

Acquired(m) == HasOutcome(m, "acquire", "job_semaphore", TRUE)

Releases(m) == Count(m, "release", "job_semaphore")

\* the messages whose acquisition has not been released
Holders == {m \in Msgs : Acquired(m) /\ Releases(m) = 0}

\* the handler of m has ended and no job of m is pending or running
Ended(m) == pc[m] \in {"h_returned", "h_raised", "j_done"}

\* the stages of the pipeline that wait on an external collaborator
ExternalStages == {"download", "transcribe", "translate", "render", "send_video"}

\* the positions of the try body that follow the two gates
PastGates ==
    {"j_notify_translate", "j_translate", "j_notify_ass", "j_make_ass",
     "j_notify_burn", "j_create_output", "j_burn", "j_notify_upload",
     "j_send_video", "j_cleanup"}

\* no translation, no subtitle file, no render and no delivery in m's job
NothingAfterGate(m) ==
    /\ ~Has(m, "call", "translate")
    /\ ~Has(m, "create", "ass")
    /\ ~Has(m, "call", "render")
    /\ ~Has(m, "call", "send_video")

\* ------------------------------------------------------------------------
\* Claims
\* ------------------------------------------------------------------------

\* C1: every successful acquire is released exactly once, whichever later
\* step fails: never more than once, and once the handler or the job of an
\* admitted message has ended, exactly once.
C1_ReleasedExactlyOnce ==
    \A m \in Msgs :
        /\ Releases(m) <= (IF Acquired(m) THEN 1 ELSE 0)
        /\ (Ended(m) /\ Acquired(m)) => Releases(m) = 1

\* C2: whenever process_video_job has ended, by delivery, by the no-speech
\* or too-long return or by an exception, none of its temporary files is
\* left.
C2_FilesRemoved ==
    \A m \in Msgs : pc[m] = "j_done" => files[m] = {}

\* C3: at most WORKERS messages hold a slot; an arriving message is never
\* made to wait; it is denied, and answered with the busy notice as the next
\* thing, exactly when all WORKERS slots are held, and admitted otherwise,
\* in particular once a holder has released.
C3_HoldersBounded ==
    \A m \in Msgs :
        /\ Cardinality(Holders) <= WORKERS
        /\ pc[m] = "idle" => ENABLED HandleVideoAcquire(m)
        /\ \A i \in DOMAIN log[m] :
              log[m][i] = Ev(HANDLER, "acquire", "job_semaphore", FALSE) =>
                 IF i = Len(log[m]) THEN pc[m] = "h_notify_busy"
                 ELSE log[m][i + 1].ev = "notice" /\ log[m][i + 1].what = "busy"

C3_AdmitsIffFree ==
    \A m \in Msgs :
        (pc[m] = "idle" /\ pc'[m] # "idle") =>
            /\ Cardinality(Holders) = WORKERS => pc'[m] = "h_notify_busy"
            /\ Cardinality(Holders) < WORKERS => pc'[m] = "h_notify_download"

C3_Admission == [](C3_HoldersBounded) /\ [][C3_AdmitsIffFree]_vars

\* a message was denied and told so while another one's job was running,
\* and was denied because that one held the slot
C3_Witness ==
    \E m1, m2 \in Msgs :
        /\ m1 # m2
        /\ pc[m1] \in JobPcs
        /\ Cardinality(Holders) = WORKERS
        /\ HasOutcome(m2, "notice", "busy", TRUE)

\* C4: handle_video runs no pipeline stage that waits on an external
\* collaborator: no download, transcription, translation, render or upload.
C4_HandlerRunsNoStage ==
    \A m \in Msgs : \A i \in DOMAIN log[m] :
        (log[m][i].by = HANDLER /\ log[m][i].ev = "call") =>
            log[m][i].what \notin ExternalStages

\* C5: a job is sent to the too-long notice exactly when the largest end of
\* its retained segments exceeds MAX_VIDEO_SECONDS (equal passes), and a job
\* that was sent there never translates, writes a subtitle file, renders or
\* delivers.
C5_GateState ==
    \A m \in Msgs :
        /\ pc[m] = "j_notify_too_long" =>
              total_duration(job[m].simple_segments) > Sec(MAX_VIDEO_SECONDS)
        /\ pc[m] \in PastGates =>
              total_duration(job[m].simple_segments) <= Sec(MAX_VIDEO_SECONDS)
        /\ (pc[m] = "j_notify_too_long" \/ Has(m, "notice", "too_long")) =>
              /\ NothingAfterGate(m)
              /\ pc[m] \in {"j_notify_too_long", "j_except", "j_finally", "j_done"}

C5_GateStep ==
    \A m \in Msgs :
        /\ (pc[m] = "j_transcribe" /\ pc'[m] \in PastGates \cup {"j_notify_too_long"}) =>
              (pc'[m] = "j_notify_too_long" <=>
                  total_duration(job'[m].simple_segments) > Sec(MAX_VIDEO_SECONDS))
        /\ (pc[m] = "j_notify_too_long" /\ pc'[m] # "j_notify_too_long") =>
              /\ log'[m][Len(log'[m])].what = "too_long"
              /\ pc'[m] \in {"j_finally", "j_except"}
        /\ Has(m, "notice", "too_long")' =>
              (Has(m, "notice", "too_long") \/ pc[m] = "j_notify_too_long")

C5_DurationGate == [](C5_GateState) /\ [][C5_GateStep]_vars

\* one job was rejected as too long and has ended, and another one whose
\* largest end equals the bound is past the gate
C5_Witness ==
    \E m1, m2 \in Msgs :
        /\ pc[m1] = "j_done" /\ HasOutcome(m1, "notice", "too_long", TRUE)
        /\ pc[m2] \in PastGates
        /\ total_duration(job[m2].simple_segments) = Sec(MAX_VIDEO_SECONDS)

\* C6 as stated: after a transcription error, as after an empty
\* normalization, the job sends the no-speech notice and neither translates
\* nor renders nor delivers.
C6_NoSpeechAlsoOnError ==
    \A m \in Msgs :
        (pc[m] = "j_done" /\ HasOutcome(m, "call", "transcribe", FALSE)) =>
            /\ Has(m, "notice", "no_speech")
            /\ NothingAfterGate(m)

\* C6 as amended: the no-speech notice goes out exactly when normalization
\* retained no segment; a transcription error is answered with the generic
\* failure notice instead; in both cases the job neither translates nor
\* renders nor delivers.
C6_NoSpeechState ==
    \A m \in Msgs :
        /\ pc[m] = "j_notify_no_speech" => job[m].simple_segments = <<>>
        /\ pc[m] \in PastGates \cup {"j_notify_too_long"} =>
              job[m].simple_segments # <<>>
        /\ (pc[m] = "j_notify_no_speech" \/ Has(m, "notice", "no_speech")) =>
              /\ HasOutcome(m, "call", "transcribe", TRUE)
              /\ NothingAfterGate(m)
        /\ HasOutcome(m, "call", "transcribe", FALSE) =>
              /\ ~Has(m, "notice", "no_speech")
              /\ NothingAfterGate(m)
              /\ pc[m] = "j_except" \/ Has(m, "notice", "job_error")

C6_NoSpeechStep ==
    \A m \in Msgs :
        /\ (pc[m] = "j_transcribe" /\ pc'[m] \notin {"j_transcribe", "j_except"}) =>
              (pc'[m] = "j_notify_no_speech" <=> job'[m].simple_segments = <<>>)
        /\ (pc[m] = "j_notify_no_speech" /\ pc'[m] # "j_notify_no_speech") =>
              /\ log'[m][Len(log'[m])].what = "no_speech"
              /\ pc'[m] \in {"j_finally", "j_except"}

C6_NoSpeech == [](C6_NoSpeechState) /\ [][C6_NoSpeechStep]_vars

\* a job ended after the no-speech notice, and another after a
\* transcription error answered with the generic notice
C6_Witness ==
    \E m1, m2 \in Msgs :
        /\ pc[m1] = "j_done" /\ HasOutcome(m1, "notice", "no_speech", TRUE)
        /\ pc[m2] = "j_done" /\ HasOutcome(m2, "call", "transcribe", FALSE)
        /\ Has(m2, "notice", "job_error")

\* C7: for a non-empty input, batch_translate_texts returns a list of the
\* input's length; if the response to the joined blob splits into another
\* number of parts, the output is the responses of one call per input text,
\* in input order; otherwise the blob call was the only call.
C7_LengthAndFallback ==
    (bt.phase = "returned" /\ bt.texts # <<>>) =>
        LET n == Len(bt.texts) IN
        /\ Len(bt.parts) = n
        /\ bt.calls[1].arg = Join(bt.texts, delimiter)
        /\ IF Len(Split(bt.calls[1].res, delimiter)) # n
             THEN /\ Len(bt.calls) = 1 + n
                  /\ \A i \in 1..n :
                        /\ bt.calls[1 + i].arg = bt.texts[i]
                        /\ bt.parts[i] = bt.calls[1 + i].res
             ELSE Len(bt.calls) = 1

\* the invocation returned through the per-item fallback, for two texts
C7_Witness ==
    /\ bt.phase = "returned"
    /\ Len(bt.texts) = 2
    /\ Len(bt.calls) = 3

\* C8: whenever batch_translate_texts returns, output element i is the
\* translation of input element i: a response the provider gives for that
\* text, as it is or trimmed.
C8_Corresponds ==
    bt.phase = "returned" =>
        \A i \in DOMAIN bt.texts :
            /\ i \in DOMAIN bt.parts
            /\ \E r \in Responses(bt.texts[i]) : bt.parts[i] \in {r, Strip(r)}

\* C9: after a failure of an admitted message a failure notice is attempted,
\* and a failure of that notice is swallowed: no exception leaves the handler
\* or the job.
C9_NoticeFailureSwallowed ==
    \A m \in Msgs :
        Acquired(m) =>
            /\ pc[m] # "h_raised"
            /\ (Ended(m) /\ \E i \in DOMAIN log[m] : ~log[m][i].ok) =>
                  (Has(m, "notice", "job_error") \/ Has(m, "notice", "handler_error"))

\* C10: the render tool runs at most once in a job; after a non-zero exit
\* the job neither announces nor performs the upload, and it goes to the
\* generic failure notice.
C10_RenderHardFailure ==
    \A m \in Msgs :
        /\ Count(m, "call", "render") <= 1
        /\ HasOutcome(m, "call", "render", FALSE) =>
              /\ ~Has(m, "notice", "uploading")
              /\ ~Has(m, "call", "send_video")
              /\ pc[m] \in {"j_except", "j_finally", "j_done"}
              /\ pc[m] = "j_except" \/ Has(m, "notice", "job_error")

\* a job ended after the render tool failed
C10_Witness ==
    \E m \in Msgs :
        /\ pc[m] = "j_done"
        /\ HasOutcome(m, "call", "render", FALSE)
        /\ Has(m, "notice", "job_error")

\* the stages of one job in the order of the code: the download of
\* handle_video, then transcription (its filter loop and its duration check
\* follow in the same step), translation, the subtitle file, the render,
\* the delivery and the cleanup
StageOrder ==
    << [ev |-> "call", what |-> "download"],
       [ev |-> "call", what |-> "transcribe"],
       [ev |-> "call", what |-> "translate"],
       [ev |-> "create", what |-> "ass"],
       [ev |-> "call", what |-> "render"],
       [ev |-> "call", what |-> "send_video"],
       [ev |-> "remove", what |-> CleanupTargets] >>

IsStage(e) ==
    \E k \in DOMAIN StageOrder :
        e.ev = StageOrder[k].ev /\ e.what = StageOrder[k].what

\* the stage entries of m's log, in the order they were made
StageLog(m) == SelectSeq(log[m], IsStage)

\* C11: within one job the stages run in the fixed order download,
\* transcribe (with filter and duration check), translate, serialize, render,
\* deliver, cleanup: the k-th stage entered is the k-th of that order, so no
\* stage runs twice or out of turn, every stage but the last entered has
\* succeeded, the positions after the two gates are reached only after a
\* successful transcription, and the video is delivered only after all
\* earlier stages succeeded.
C11_StagesInOrder ==
    \A m \in Msgs :
        LET s == StageLog(m) IN
        /\ Len(s) <= Len(StageOrder)
        /\ \A k \in DOMAIN s :
              /\ s[k].ev = StageOrder[k].ev
              /\ s[k].what = StageOrder[k].what
              /\ k < Len(s) => s[k].ok
        /\ pc[m] \in PastGates => HasOutcome(m, "call", "transcribe", TRUE)
        /\ HasOutcome(m, "call", "send_video", TRUE) =>
              /\ Len(s) >= 6
              /\ \A k \in 1..6 : s[k].ok

\* a job that went through every stage, cleanup included, and has ended
C11_Witness ==
    \E m \in Msgs :
        /\ pc[m] = "j_done"
        /\ Len(StageLog(m)) = Len(StageOrder)
        /\ \A k \in DOMAIN StageLog(m) : StageLog(m)[k].ok

\* C12: the slot of an admitted message stays held until its job has fully
\* concluded: while the handler or the job of an admitted message has not
\* ended the slot is not released, the release is the last entry of the
\* job's log, after delivery and cleanup where they happen, and once it is
\* made the job sends nothing, calls nothing and touches no file.
C12_ReleaseIsLastState ==
    \A m \in Msgs :
        /\ (Acquired(m) /\ pc[m] # "j_done") => m \in Holders
        /\ \A i \in DOMAIN log[m] :
              log[m][i].ev = "release" => (i = Len(log[m]) /\ pc[m] = "j_done")
        /\ pc[m] = "j_done" => log[m][Len(log[m])].ev = "release"

C12_NothingAfterRelease ==
    \A m \in Msgs :
        pc[m] = "j_done" =>
            (pc'[m] = "j_done" /\ log'[m] = log[m] /\ files'[m] = files[m])

C12_ReleaseIsLast == [](C12_ReleaseIsLastState) /\ [][C12_NothingAfterRelease]_vars

\* a job that delivered and cleaned up, released after both, while another
\* message was handled after the release
C12_Witness ==
    \E m \in Msgs :
        /\ pc[m] = "j_done"
        /\ Has(m, "call", "send_video") /\ Has(m, "remove", CleanupTargets)
        /\ log[m][Len(log[m])].ev = "release"
        /\ \E n \in Msgs \ {m} : Acquired(n)

\* the raw spans the filter loop keeps: start and end present, text not blank
KeptSpans(segments) ==
    {i \in DOMAIN segments :
        /\ "start" \in DOMAIN segments[i] /\ "end" \in DOMAIN segments[i]
        /\ "text" \in DOMAIN segments[i]
        /\ \E k \in DOMAIN segments[i].text : ~IsSpace(segments[i].text[k])}

\* C13: normalization keeps exactly the raw spans that have a start, an end
\* and a text that is not blank, in their original order and with the text
\* trimmed; every other span is dropped; a span that ends before it starts,
\* or that comes out of time order, is kept with its times unchanged.
C13_NormalizeKeepsExactly ==
    (fn.op = "normalize" /\ fn.done) =>
        LET in == fn.segments
            out == fn.simple_segments
            Rank(i) == Cardinality({j \in KeptSpans(in) : j <= i})
        IN  /\ Len(out) = Cardinality(KeptSpans(in))
            /\ \A i \in KeptSpans(in) :
                  /\ out[Rank(i)].start = in[i].start
                  /\ out[Rank(i)].end = in[i].end
                  /\ out[Rank(i)].text = Strip(in[i].text)
                  /\ out[Rank(i)].text # <<>>

\* a list with a blank span and then a span that ends before it starts has
\* been normalized: the first is gone, the second is there
C13_Witness ==
    /\ fn.op = "normalize" /\ fn.done
    /\ Len(fn.segments) = 2 /\ Len(fn.simple_segments) = 1
    /\ 1 \notin KeptSpans(fn.segments)
    /\ fn.simple_segments[1].end < fn.simple_segments[1].start

\* the time code h:mm:ss.cc written out for whole numbers h, m, s, cc
TimeCode(h, m, s, cc) ==
    Decimal(h) \o <<":">> \o Pad2(m) \o <<":">> \o Pad2(s) \o <<".">> \o Pad2(cc)

\* C14: the subtitle document is the fixed header followed by exactly one
\* Dialogue line per segment, in the order of the input and never sorted,
\* each line carrying the time codes of that segment's start and end; the
\* segments (0.0, 2.5) and (2.5, 5.0) give the lines 0:00:00.00-0:00:02.50
\* and 0:00:02.50-0:00:05.00.
C14_OneLinePerSegment ==
    (fn.op = "make_ass" /\ fn.stage = "written") =>
        LET segs == fn.simple_segments
            doc == fn.document
        IN  /\ doc.header = Header
            /\ Len(doc.events) = Len(segs)
            /\ \A i \in DOMAIN segs :
                  /\ doc.events[i].Start = seconds_to_ass_time(segs[i].start)
                  /\ doc.events[i].End = seconds_to_ass_time(segs[i].end)
                  /\ (segs[i].start = 0 /\ segs[i].end = 2500) =>
                        /\ doc.events[i].Start = TimeCode(0, 0, 0, 0)
                        /\ doc.events[i].End = TimeCode(0, 0, 2, 50)
                  /\ (segs[i].start = 2500 /\ segs[i].end = Sec(5)) =>
                        /\ doc.events[i].Start = TimeCode(0, 0, 2, 50)
                        /\ doc.events[i].End = TimeCode(0, 0, 5, 0)

\* a file was written for two segments the second of which starts before
\* the first: its lines are in the order of the input
C14_Witness ==
    /\ fn.op = "make_ass" /\ fn.stage = "written"
    /\ Len(fn.simple_segments) = 2
    /\ fn.simple_segments[2].start < fn.simple_segments[1].start
    /\ fn.document.events[1].Start = TimeCode(0, 0, 2, 50)
    /\ fn.document.events[1].End = TimeCode(0, 0, 5, 0)

\* the number a string of digits stands for
RECURSIVE DigitsValue(_)
DigitsValue(digits) ==
    IF digits = <<>> THEN 0
    ELSE 10 * DigitsValue(SubSeq(digits, 1, Len(digits) - 1))
           + (CHOOSE d \in 0..9 : DigitChars[d + 1] = digits[Len(digits)])

\* a time code H:MM:SS.cc read back: its four numbers, and the time
\* H*3600 + MM*60 + SS + cc/100 in milliseconds
ParseTimeCode(code) ==
    LET hms == Split(code, <<":">>)
        scc == Split(hms[3], <<".">>)
    IN  [h |-> DigitsValue(hms[1]), m |-> DigitsValue(hms[2]),
         s |-> DigitsValue(scc[1]), cs |-> DigitsValue(scc[2]),
         digits |-> <<Len(hms[1]), Len(hms[2]), Len(scc[1]), Len(scc[2])>>]

DecodeTimeCode(code) ==
    LET f == ParseTimeCode(code)
    IN  Sec(f.h * 3600 + f.m * 60 + f.s) + f.cs * 10

\* C15: for every t in [0, 36000) the time code of t, decoded as
\* H*3600 + MM*60 + SS + cc/100, differs from t by less than 0.01 s
\* (10 ms).
C15_RoundTrip ==
    (fn.op = "time" /\ fn.done) =>
        LET back == DecodeTimeCode(fn.code)
        IN  /\ back - fn.t < 10
            /\ fn.t - back < 10

\* C17: for every t >= 0 the result is H:MM:SS.cc with H = floor(t/3600)
\* unpadded, MM = floor((t mod 3600)/60) and SS = floor(t mod 60) in two
\* digits within 00..59, and cc the fraction of the second truncated to two
\* digits, within 00..99 and never rounded up, so that the encoded time is
\* never later than t.
C17_TruncatedFields ==
    (fn.op = "time" /\ fn.done) =>
        LET f == ParseTimeCode(fn.code)
            whole == fn.t \div 1000
        IN  /\ f.h = whole \div 3600
            /\ f.digits[1] = Len(Decimal(f.h))
            /\ f.m = (whole % 3600) \div 60 /\ f.m \in 0..59 /\ f.digits[2] = 2
            /\ f.s = whole % 60 /\ f.s \in 0..59 /\ f.digits[3] = 2
            /\ f.cs = (fn.t % 1000) \div 10 /\ f.cs \in 0..99 /\ f.digits[4] = 2
            /\ DecodeTimeCode(fn.code) <= fn.t

\* the right-to-left override, U+202E, as one character
DirectionOverride == "RLO"

\* C16: in every Dialogue line the text payload is the segment's text with
\* its newlines escaped to \N and with a right-to-left override marker
\* prepended; the override is there whatever the text is, and the text is
\* not altered otherwise.
C16_OverridePrepended ==
    (fn.op = "make_ass" /\ fn.stage = "written") =>
        \A i \in DOMAIN fn.simple_segments :
            fn.document.events[i].Text
                = <<DirectionOverride>> \o EscapeNewlines(fn.simple_segments[i].text)

\* C18: between normalization and serialization every retained segment is
\* changed exactly once: its text becomes the translation at the same index
\* while its start and end stay; the number and the order of the segments
\* stay, so the document has as many Dialogue lines as there are retained
\* segments, each with the time codes of the original start and end.
C18_AttachedState ==
    fn.op = "make_ass" =>
        /\ Len(fn.simple_segments) = Len(fn.normalized)
        /\ \A i \in DOMAIN fn.normalized :
              /\ fn.simple_segments[i].start = fn.normalized[i].start
              /\ fn.simple_segments[i].end = fn.normalized[i].end
              /\ fn.simple_segments[i].text =
                    IF fn.stage = "translated" THEN fn.normalized[i].text
                    ELSE fn.translated[i]
        /\ fn.stage = "written" =>
              /\ Len(fn.document.events) = Len(fn.normalized)
              /\ \A i \in DOMAIN fn.normalized :
                    /\ fn.document.events[i].Start
                          = seconds_to_ass_time(fn.normalized[i].start)
                    /\ fn.document.events[i].End
                          = seconds_to_ass_time(fn.normalized[i].end)
                    /\ fn.document.events[i].Text
                          = shape_for_ass(EscapeNewlines(fn.translated[i]), fn.raises[i])

C18_ChangedOnce ==
    (fn.op = "make_ass" /\ fn'.simple_segments # fn.simple_segments) =>
        (fn.stage = "translated" /\ fn'.stage = "attached")

C18_MutatedOnce == [](C18_AttachedState) /\ [][C18_ChangedOnce]_vars

\* two segments got two different translations and were written
C18_Witness ==
    /\ fn.op = "make_ass" /\ fn.stage = "written"
    /\ Len(fn.normalized) = 2
    /\ fn.translated[1] # fn.translated[2]
    /\ fn.simple_segments[1].text # fn.normalized[1].text
    /\ Len(fn.document.events) = 2

\* the acquire of m's handler found no permit
Denied(m) == HasOutcome(m, "acquire", "job_semaphore", FALSE)

\* a denied message touches nothing but its own log: no file, no call of a
\* collaborator, nothing submitted, no job of its own
DeniedTouchesNothing(m) ==
    /\ files[m] = {} /\ job[m] = NoJob
    /\ pc[m] \in {"h_notify_busy", "h_except", "h_returned", "h_raised"}
    /\ \A i \in DOMAIN log[m] : log[m][i].ev \in {"acquire", "notice"}
    /\ \A i \in DOMAIN queue : queue[i] # m

\* C19: a denied admission changes nothing - the permits, the files, the
\* executor and the jobs in flight are as they were - and its only effect is
\* one busy notice.
C19_OnlyBusyNotice ==
    \A m \in Msgs :
        Denied(m) =>
            /\ DeniedTouchesNothing(m)
            /\ \A i \in DOMAIN log[m] :
                  log[m][i].ev = "notice" => log[m][i].what = "busy"
            /\ Count(m, "notice", "busy") <= 1

\* C19, amended: a denied admission changes nothing, and its only effect is
\* one busy notice or, when sending that notice fails, one attempt of the
\* handler's error notice after it.
C19_DeniedState ==
    \A m \in Msgs :
        Denied(m) =>
            /\ DeniedTouchesNothing(m)
            /\ Count(m, "notice", "busy") <= 1
            /\ Count(m, "notice", "handler_error") <= 1
            /\ \A i \in DOMAIN log[m] :
                  log[m][i].ev = "notice" =>
                     \/ log[m][i].what = "busy"
                     \/ /\ log[m][i].what = "handler_error"
                        /\ HasOutcome(m, "notice", "busy", FALSE)
            /\ pc[m] = "h_returned" => Has(m, "notice", "busy")

\* the steps of a message that is denied, the denial included, leave the
\* permits, the executor, the files and every other message as they were
C19_DeniedFrame ==
    \A m \in Msgs :
        (Denied(m)' /\ pc'[m] # pc[m]) =>
            /\ permits' = permits /\ queue' = queue
            /\ files' = files /\ job' = job
            /\ \A n \in Msgs \ {m} : pc'[n] = pc[n] /\ log'[n] = log[n]

C19_DeniedChangesNothing == [](C19_DeniedState) /\ [][C19_DeniedFrame]_vars

\* a denied message has returned after its busy notice while the job of
\* another message is running
C19_Witness ==
    \E m \in Msgs :
        /\ Denied(m) /\ pc[m] = "h_returned"
        /\ HasOutcome(m, "notice", "busy", TRUE)
        /\ \E n \in Msgs \ {m} : pc[n] \in JobPcs

\* C20: in every reachable state the permits available lie between 0 and
\* WORKERS: no release happens without an earlier successful acquire of the
\* same message that has not been released yet, so the permits available
\* and the slots held never add up to more than WORKERS.
C20_PermitsInRange ==
    /\ permits \in 0..WORKERS
    /\ permits + Cardinality(Holders) = WORKERS
    /\ \A m \in Msgs : Releases(m) > 0 => (Acquired(m) /\ Releases(m) = 1)

\* a permit was taken, given back by the job's finally clause, and taken
\* again by a later message
C20_Witness ==
    \E m, n \in Msgs :
        /\ m # n
        /\ pc[m] = "j_done" /\ Releases(m) = 1
        /\ Acquired(n) /\ Releases(n) = 0
        /\ permits = WORKERS - 1

====
